---- MODULE Spec2Model ----
(***************************************************************************)
(* A model of socks.py, a SOCKS4 proxy: the listener loop                  *)
(* (SocksProxy.start), the request decoder (ClientRequest), the reply      *)
(* encoder (_build_reply), the request handlers (_process_request,         *)
(* _process_connect_request, _process_bind_request) and the relay thread   *)
(* (_forward_connection).                                                  *)
(*                                                                         *)
(* The listener is one thread: it accepts, reads the first buffer and runs *)
(* the handler inline, so its position (lpc) is a single value.  Each      *)
(* successful CONNECT starts one daemon thread that relays bytes.          *)
(***************************************************************************)
EXTENDS Integers, Sequences, FiniteSets, TLC

\* ---------------------------------------------------------------- bounds
MaxConns == 2      \* connections the listener accepts in one run
MaxRecv  == 2      \* non-empty reads made by all relay threads together
MaxChunk == 2      \* largest chunk (in bytes) one relay read returns

\* ------------------------------------------------------ program constants
VN                   == 0
CLIENT_VN            == 4
REQUEST_TYPE_CONNECT == 1
REQUEST_TYPE_BIND    == 2
CD_REQUEST_GRANTED   == 90
CD_REQUEST_REJECTED  == 91

Conns == 1..MaxConns

\* The first buffers a client may deliver (conn.recv in start): an 8-byte
\* header without the terminating NUL (too short), a wrong version, an
\* unknown command, a BIND and a CONNECT to 127.0.0.1:8080.
Buffers ==
  { <<4, 1, 31, 144, 127, 0, 0, 1>>,
    <<3, 1, 31, 144, 127, 0, 0, 1, 0>>,
    <<4, 3, 31, 144, 127, 0, 0, 1, 0>>,
    <<4, 2, 31, 144, 127, 0, 0, 1, 0>>,
    <<4, 1, 31, 144, 127, 0, 0, 1, 0>> }

\* ------------------------------------------------------------ pure parts

\* data[a:b] of Python for 0 <= a, as a 1-based SubSeq
Slice(data, a, b) == SubSeq(data, a + 1, b)

\* struct.unpack('>H', ..) and struct.unpack('>L', ..): big-endian integers
UnpackH(b) == b[1] * 256 + b[2]
UnpackL(b) == ((b[1] * 256 + b[2]) * 256 + b[3]) * 256 + b[4]

\* A variant of PackH in little-endian order ('<H')
PackH_little(n) == << n % 256, (n \div 256) % 256 >>

\* struct.pack('>H', n) and struct.pack('>L', n)
PackH(n) == << (n \div 256) % 256, n % 256 >>
PackL(n) == << (n \div 16777216) % 256, (n \div 65536) % 256,
               (n \div 256) % 256, n % 256 >>

\* ipaddress.IPv4Address(n).exploded: the dotted quad, as its four octets
Exploded(n) == PackL(n)

\* A variant of ClientRequest whose length check is `len(data) < 8`
ClientRequest_len8(data) ==
  IF Len(data) < 8
  THEN [ invalid |-> TRUE, set |-> {"invalid"}, cd |-> 0, dst_port |-> 0,
         dst_ip |-> <<>>, userid |-> <<>> ]
  ELSE [ invalid  |-> (data[1] # CLIENT_VN)
                      \/ (data[2] # REQUEST_TYPE_CONNECT
                          /\ data[2] # REQUEST_TYPE_BIND),
         set      |-> {"invalid", "cd", "dst_port", "dst_ip", "userid"},
         cd       |-> data[2],
         dst_port |-> UnpackH(Slice(data, 2, 4)),
         dst_ip   |-> Exploded(UnpackL(Slice(data, 4, 8))),
         userid   |-> Slice(data, 8, Len(data) - 1) ]

\* A variant of ClientRequest that also rejects a request whose user id is
\* not terminated by a NUL byte
ClientRequest_nulChecked(data) ==
  IF Len(data) < 9
  THEN [ invalid |-> TRUE, set |-> {"invalid"}, cd |-> 0, dst_port |-> 0,
         dst_ip |-> <<>>, userid |-> <<>> ]
  ELSE [ invalid  |-> (data[1] # CLIENT_VN)
                      \/ (data[2] # REQUEST_TYPE_CONNECT
                          /\ data[2] # REQUEST_TYPE_BIND)
                      \/ data[Len(data)] # 0,
         set      |-> {"invalid", "cd", "dst_port", "dst_ip", "userid"},
         cd       |-> data[2],
         dst_port |-> UnpackH(Slice(data, 2, 4)),
         dst_ip   |-> Exploded(UnpackL(Slice(data, 4, 8))),
         userid   |-> Slice(data, 8, Len(data) - 1) ]

\* ClientRequest.__init__: `set` lists the attributes the constructor
\* assigned; an attribute outside `set` does not exist on the object.
ClientRequest(data) ==
  IF Len(data) < 9
  THEN [ invalid |-> TRUE, set |-> {"invalid"}, cd |-> 0, dst_port |-> 0,
         dst_ip |-> <<>>, userid |-> <<>> ]
  ELSE LET vn       == data[1]
           cd       == data[2]
           dst_port == UnpackH(Slice(data, 2, 4))
           dst_ip   == UnpackL(Slice(data, 4, 8))
       IN [ invalid  |-> (vn # CLIENT_VN)
                         \/ (cd # REQUEST_TYPE_CONNECT /\ cd # REQUEST_TYPE_BIND),
            set      |-> {"invalid", "cd", "dst_port", "dst_ip", "userid"},
            cd       |-> cd,
            dst_port |-> dst_port,
            dst_ip   |-> Exploded(dst_ip),
            userid   |-> Slice(data, 8, Len(data) - 1) ]

isInvalid(r) == r.invalid

\* SocksProxy._build_reply(cd, dst_port, dst_ip): struct.pack('>BBHL', ..)
build_reply(cd, dst_port, dst_ip) ==
  << VN, cd >> \o PackH(dst_port) \o PackL(dst_ip)

\* _build_reply(cd) with dst_port=0x0000 and dst_ip=0x000000 defaulted
build_reply_default(cd) == build_reply(cd, 0, 0)

\* The reply _process_connect_request sends on success:
\* self._build_reply(CD_REQUEST_GRANTED), port and address defaulted
GrantedReply(r) == build_reply(CD_REQUEST_GRANTED, 0, 0)

\* The reply of every rejecting path: self._build_reply(CD_REQUEST_REJECTED)
RejectedReply == build_reply(CD_REQUEST_REJECTED, 0, 0)

\* ----------------------------------------------------------------- state
VARIABLES
  lpc,        \* listener position: "accept", "recv", "connect", "exited"
  lsock,      \* the listening socket s: "open" or "closed"
  exitCode,   \* -1 while running, else the argument of sys.exit
  conn,       \* the connection the listener is handling (0: none yet)
  nconn,      \* connections accepted so far
  data,       \* data[c]: the first buffer read from connection c
  csock,      \* csock[c]: client socket "none", "open", "closed"
  ssock,      \* ssock[c]: serverConn "none", "created", "connected", "closed"
  dial,       \* dial[c]: "none", "pending", "ok", "timeout", "refused"
  dials,      \* dials[c]: number of serverConn.connect calls
  sends,      \* sends[c]: the clientConn.send calls of the handlers, in order
  fieldsRead, \* fieldsRead[c]: request attributes the handlers read
  cout,       \* cout[c]: every byte delivered to the client, in order
  rpc,        \* relay thread: "none", "select", "loop", "send", "dead", "killed"
  rterm,      \* why the relay thread ended: "", "err", "eof", "reset", "senderr"
  ready,      \* ready[c]: sockets of select's ready list not yet served
  buf,        \* buf[c]: the chunk held in `data` between recv and sendall
              \* (both are locals of the thread: empty once it has ended)
  rdC, rdD,   \* bytes the relay read from the client / the destination
  wrC, wrD,   \* bytes the relay wrote to the client / the destination
  nrecv,      \* non-empty relay reads so far (bounded by MaxRecv)
  lreads,     \* lreads[c]: conn.recv calls the listener made on connection c
  target,     \* target[c]: the (address, port) passed to serverConn.connect
  started,    \* started[c]: forward.start() calls made for connection c
  arg, ret    \* argument and result of a decoder or encoder call made on
              \* its own (no such call in a run of the proxy)

vars == << lpc, lsock, exitCode, conn, nconn, data, csock, ssock, dial, dials,
           sends, fieldsRead, cout, rpc, rterm, ready, buf, rdC, rdD, wrC, wrD,
           nrecv, lreads, target, started, arg, ret >>

listenerVars == << lpc, lsock, exitCode, conn, nconn >>
sessionVars  == << data, csock, ssock, dial, dials, sends, fieldsRead >>
relayVars    == << rpc, rterm, ready, buf, rdC, rdD, wrC, wrD, nrecv >>
pureVars     == << arg, ret >>

\* no connect call made
NoTarget == << >>

\* no call made / no result yet
NoCall == [op |-> "none"]

\* the proxy after SocksProxy.__init__ and the listen call of start
ProxyInit ==
  /\ lpc = "accept" /\ lsock = "open" /\ exitCode = -1
  /\ conn = 0 /\ nconn = 0
  /\ data = [c \in Conns |-> <<>>]
  /\ csock = [c \in Conns |-> "none"]
  /\ ssock = [c \in Conns |-> "none"]
  /\ dial = [c \in Conns |-> "none"]
  /\ dials = [c \in Conns |-> 0]
  /\ sends = [c \in Conns |-> <<>>]
  /\ fieldsRead = [c \in Conns |-> {}]
  /\ cout = [c \in Conns |-> <<>>]
  /\ rpc = [c \in Conns |-> "none"]
  /\ rterm = [c \in Conns |-> ""]
  /\ ready = [c \in Conns |-> <<>>]
  /\ buf = [c \in Conns |-> <<>>]
  /\ rdC = [c \in Conns |-> <<>>]
  /\ rdD = [c \in Conns |-> <<>>]
  /\ wrC = [c \in Conns |-> <<>>]
  /\ wrD = [c \in Conns |-> <<>>]
  /\ nrecv = 0
  /\ lreads = [c \in Conns |-> 0]
  /\ target = [c \in Conns |-> NoTarget]
  /\ started = [c \in Conns |-> 0]

Init ==
  /\ ProxyInit
  /\ arg = NoCall
  /\ ret = NoCall


\* ------------------------------------------------------- socket helpers

\* What clientConn.send can do on a socket in state sock: on an open socket
\* it queues all the bytes or raises (the peer reset the connection); on a
\* closed socket it raises OSError (EBADF) and delivers nothing.
SendOutcomes(sock) == IF sock = "open" THEN {"ok", "raise"} ELSE {"ebadf"}

\* One entry of sends[c]: the bytes passed to send and what send did
SendCall(bytes, res) == [bytes |-> bytes, res |-> res]

\* Interpreter exit kills the daemon relay threads that are still running
Running(c) == rpc[c] \in {"select", "loop", "send"}

KilledRelays == [c \in Conns |-> IF Running(c) THEN "killed" ELSE rpc[c]]

\* start, lines 87-94: s.close() and sys.exit(code); the frames of the
\* killed threads (their ready list and chunk) go with them
Exit(code) ==
  /\ lpc' = "exited"
  /\ lsock' = "closed"
  /\ exitCode' = code
  /\ rpc' = KilledRelays
  /\ ready' = [c \in Conns |-> IF Running(c) THEN <<>> ELSE ready[c]]
  /\ buf' = [c \in Conns |-> IF Running(c) THEN <<>> ELSE buf[c]]

\* ------------------------------------------------------------- listener

\* start, line 82: conn, addr = s.accept()
Accept ==
  /\ lpc = "accept"
  /\ nconn < MaxConns
  /\ nconn' = nconn + 1
  /\ conn' = nconn + 1
  /\ csock' = [csock EXCEPT ![nconn + 1] = "open"]
  /\ lpc' = "recv"
  /\ UNCHANGED << lsock, exitCode, data, ssock, dial, dials, sends,
                  fieldsRead, cout >>
  /\ UNCHANGED relayVars
  /\ UNCHANGED << lreads, target, started >>
  /\ UNCHANGED pureVars

\* clientConn.send(self._build_reply(CD_REQUEST_REJECTED)); clientConn.close()
\* of _process_request (127-129) and _process_bind_request (119-120).  A
\* send that raises skips the close and unwinds into start's handler.
SendRejectedAndClose(c, res) ==
  /\ sends' = [sends EXCEPT ![c] = Append(@, SendCall(RejectedReply, res))]
  /\ IF res = "ok"
     THEN /\ cout' = [cout EXCEPT ![c] = @ \o RejectedReply]
          /\ csock' = [csock EXCEPT ![c] = "closed"]
          /\ lpc' = "accept"
          /\ UNCHANGED << lsock, exitCode, rpc, ready, buf >>
     ELSE /\ UNCHANGED << cout, csock >>
          /\ Exit(1)

\* _process_bind_request
process_bind_request(c, res) ==
  /\ SendRejectedAndClose(c, res)
  /\ UNCHANGED << ssock, dial, dials, target >>

\* _process_connect_request up to the blocking serverConn.connect (100-104)
process_connect_request(c, clientRequest) ==
  /\ ssock' = [ssock EXCEPT ![c] = "created"]
  /\ target' = [target EXCEPT ![c] =
                  << clientRequest.dst_ip, clientRequest.dst_port >>]
  /\ dial' = [dial EXCEPT ![c] = "pending"]
  /\ dials' = [dials EXCEPT ![c] = @ + 1]
  /\ lpc' = "connect"
  /\ UNCHANGED << lsock, exitCode, rpc, ready, buf, sends, cout, csock >>

\* _process_request: decode, then reject, connect or bind
process_request(c, d, res) ==
  LET clientRequest == ClientRequest(d) IN
  IF isInvalid(clientRequest)
  THEN /\ fieldsRead' = [fieldsRead EXCEPT ![c] = @ \cup {"invalid"}]
       /\ SendRejectedAndClose(c, res)
       /\ UNCHANGED << ssock, dial, dials, target >>
  ELSE IF clientRequest.cd = REQUEST_TYPE_CONNECT
  THEN /\ fieldsRead' = [fieldsRead EXCEPT ![c] =
                           @ \cup {"invalid", "cd", "dst_ip", "dst_port"}]
       /\ process_connect_request(c, clientRequest)
  ELSE /\ fieldsRead' = [fieldsRead EXCEPT ![c] = @ \cup {"invalid", "cd"}]
       /\ process_bind_request(c, res)

\* A variant of RequestBytes that goes on reading when the first read is
\* shorter than a request (here the client's next byte is the NUL)
RequestBytes_accumulated(first) ==
  IF Len(first) < 9 THEN first \o << 0 >> ELSE first

\* start, lines 83 and 86: the buffer handed to _process_request is the
\* result of the one conn.recv call
RequestBytes(first) == first

\* start, lines 83-86: data = conn.recv(..); self._process_request(data, conn)
\* with the first read drawn from the set B
RecvRequestFrom(B) ==
  /\ lpc = "recv"
  /\ \E d \in B, res \in SendOutcomes(csock[conn]) :
       /\ data' = [data EXCEPT ![conn] = d]
       /\ process_request(conn, RequestBytes(d), res)
  /\ lreads' = [lreads EXCEPT ![conn] = @ + 1]
  /\ UNCHANGED << conn, nconn, rterm, rdC, rdD, wrC, wrD, nrecv, started >>
  /\ UNCHANGED pureVars

RecvRequest == RecvRequestFrom(Buffers)

\* start, line 83 raising (the client reset before its first bytes): the
\* exception reaches `except Exception`
RecvFail ==
  /\ lpc = "recv"
  /\ lreads' = [lreads EXCEPT ![conn] = @ + 1]
  /\ Exit(1)
  /\ UNCHANGED << conn, nconn, cout >>
  /\ UNCHANGED sessionVars
  /\ UNCHANGED << rterm, rdC, rdD, wrC, wrD, nrecv, target, started >>
  /\ UNCHANGED pureVars

\* A variant of CloseAfterReject that leaves the client socket as it was
\* (the close of line 109 dropped)
CloseAfterReject_skipped(sock) == sock

\* clientConn.close() in the `except socket.timeout` block, line 109
CloseAfterReject(sock) == "closed"

\* A variant of AfterHandoff in which the handler closes the client socket
\* once the relay thread is started
AfterHandoff_closed(sock) == "closed"

\* lines 113-115: the handler starts the thread and returns; it does not
\* touch the client socket it handed over
AfterHandoff(sock) == sock

\* _process_connect_request, lines 111-115, reached after a successful dial
\* and, by falling out of the except block, after a timed-out one: cs, sn and
\* co are the client socket, the send log and the delivered bytes so far.
SendGrantedAndForward(c, cs, sn, co, res) ==
  /\ sends' = [sends EXCEPT ![c] =
                 Append(sn, SendCall(GrantedReply(ClientRequest(data[c])), res))]
  /\ IF res = "ok"
     THEN /\ cout' = [cout EXCEPT ![c] =
                        co \o GrantedReply(ClientRequest(data[c]))]
          /\ rpc' = [rpc EXCEPT ![c] = "select"]
          /\ started' = [started EXCEPT ![c] = @ + 1]
          /\ csock' = [csock EXCEPT ![c] = AfterHandoff(cs)]
          /\ lpc' = "accept"
          /\ UNCHANGED << lsock, exitCode, ready, buf >>
     ELSE /\ cout' = [cout EXCEPT ![c] = co]
          /\ csock' = [csock EXCEPT ![c] = cs]
          /\ UNCHANGED started
          /\ Exit(1)

\* serverConn.connect returned: lines 104, 111-115
DialSuccess ==
  /\ lpc = "connect"
  /\ dial' = [dial EXCEPT ![conn] = "ok"]
  /\ ssock' = [ssock EXCEPT ![conn] = "connected"]
  /\ \E res \in SendOutcomes(csock[conn]) :
       SendGrantedAndForward(conn, csock[conn], sends[conn], cout[conn], res)
  /\ UNCHANGED << conn, nconn, data, dials, fieldsRead >>
  /\ UNCHANGED << rterm, rdC, rdD, wrC, wrD, nrecv, lreads, target >>
  /\ UNCHANGED pureVars

\* serverConn.connect raised socket.timeout: lines 105-109, and then, since
\* the except block does not return, lines 111-115
DialTimeout ==
  /\ lpc = "connect"
  /\ dial' = [dial EXCEPT ![conn] = "timeout"]
  /\ ssock' = [ssock EXCEPT ![conn] = "closed"]
  /\ \E res \in SendOutcomes(csock[conn]) :
       LET sn == Append(sends[conn], SendCall(RejectedReply, res)) IN
       IF res = "ok"
       THEN LET cs == CloseAfterReject(csock[conn])
                co == cout[conn] \o RejectedReply
            IN \E res2 \in SendOutcomes(cs) :
                 SendGrantedAndForward(conn, cs, sn, co, res2)
       ELSE /\ sends' = [sends EXCEPT ![conn] = sn]
            /\ UNCHANGED << csock, cout, started >>
            /\ Exit(1)
  /\ UNCHANGED << conn, nconn, data, dials, fieldsRead >>
  /\ UNCHANGED << rterm, rdC, rdD, wrC, wrD, nrecv, lreads, target >>
  /\ UNCHANGED pureVars

\* serverConn.connect raised another OSError (refused, unreachable): no
\* except clause of _process_connect_request matches, start's handler runs
DialRefused ==
  /\ lpc = "connect"
  /\ dial' = [dial EXCEPT ![conn] = "refused"]
  /\ Exit(1)
  /\ UNCHANGED << conn, nconn, data, csock, ssock, dials, sends, fieldsRead,
                  cout >>
  /\ UNCHANGED << rterm, rdC, rdD, wrC, wrD, nrecv, lreads, target, started >>
  /\ UNCHANGED pureVars

\* start, lines 87-90: KeyboardInterrupt anywhere in the loop body
Interrupt ==
  /\ lpc # "exited"
  /\ Exit(0)
  /\ UNCHANGED << conn, nconn, cout >>
  /\ UNCHANGED sessionVars
  /\ UNCHANGED << rterm, rdC, rdD, wrC, wrD, nrecv, lreads, target, started >>
  /\ UNCHANGED pureVars

\* ---------------------------------------------------------------- relay
\* _forward_connection(src, dest) runs with src = clientConn and
\* dest = serverConn.  The k-th byte the client sends after its request is
\* k, the k-th byte the destination sends is 100 + k.

PeerByte(s, k) == IF s = "src" THEN k ELSE 100 + k

\* the next n bytes of the stream of the peer of socket s, after those
\* already read: what s.recv(BUFSIZE) returns
NextChunk(s, read, n) == [i \in 1..n |-> PeerByte(s, Len(read) + i)]

\* A variant of Opposite that writes a chunk back to the socket it came from
\* (the branches of lines 162-165 swapped)
Opposite_swapped(s) == s

\* lines 162-165: the socket a chunk read from s is written to
Opposite(s) == IF s = "src" THEN "dest" ELSE "src"

\* `_close_all([src, dest]); return` (146-147, 154-155, 159-160): the name
\* _close_all is not bound in the function's scope (the method is
\* self._close_all), so the call raises NameError, the thread ends with the
\* exception and neither socket is closed.
close_all_call(c, why) ==
  /\ rpc' = [rpc EXCEPT ![c] = "dead"]
  /\ rterm' = [rterm EXCEPT ![c] = why]
  /\ ready' = [ready EXCEPT ![c] = <<>>]
  /\ buf' = [buf EXCEPT ![c] = <<>>]
  /\ UNCHANGED << csock, ssock >>

\* line 142-147: select reports an error condition
RelaySelectErr(c) ==
  /\ rpc[c] = "select"
  /\ close_all_call(c, "err")
  /\ UNCHANGED << lreads, target, started >>
  /\ UNCHANGED pureVars
  /\ UNCHANGED listenerVars
  /\ UNCHANGED << data, dial, dials, sends, fieldsRead, cout >>
  /\ UNCHANGED << rdC, rdD, wrC, wrD, nrecv >>

\* line 142: select returns the readable sockets, in the order [src, dest]
RelaySelectReady(c) ==
  /\ rpc[c] = "select"
  /\ \E rl \in { <<"src">>, <<"dest">>, <<"src", "dest">> } :
       ready' = [ready EXCEPT ![c] = rl]
  /\ rpc' = [rpc EXCEPT ![c] = "loop"]
  /\ UNCHANGED << lreads, target, started >>
  /\ UNCHANGED pureVars
  /\ UNCHANGED listenerVars
  /\ UNCHANGED sessionVars
  /\ UNCHANGED << cout, rterm, buf, rdC, rdD, wrC, wrD, nrecv >>

\* line 151: s.recv(BUFSIZE) returns a non-empty chunk
RelayRecvData(c) ==
  /\ rpc[c] = "loop"
  /\ nrecv < MaxRecv
  /\ \E n \in 1..MaxChunk :
       IF Head(ready[c]) = "src"
       THEN /\ buf' = [buf EXCEPT ![c] = NextChunk("src", rdC[c], n)]
            /\ rdC' = [rdC EXCEPT ![c] = @ \o NextChunk("src", rdC[c], n)]
            /\ UNCHANGED rdD
       ELSE /\ buf' = [buf EXCEPT ![c] = NextChunk("dest", rdD[c], n)]
            /\ rdD' = [rdD EXCEPT ![c] = @ \o NextChunk("dest", rdD[c], n)]
            /\ UNCHANGED rdC
  /\ rpc' = [rpc EXCEPT ![c] = "send"]
  /\ nrecv' = nrecv + 1
  /\ UNCHANGED << lreads, target, started >>
  /\ UNCHANGED pureVars
  /\ UNCHANGED listenerVars
  /\ UNCHANGED sessionVars
  /\ UNCHANGED << cout, rterm, ready, wrC, wrD >>

\* lines 157-160: recv returned b''
RelayRecvEOF(c) ==
  /\ rpc[c] = "loop"
  /\ close_all_call(c, "eof")
  /\ UNCHANGED << lreads, target, started >>
  /\ UNCHANGED pureVars
  /\ UNCHANGED listenerVars
  /\ UNCHANGED << data, dial, dials, sends, fieldsRead, cout >>
  /\ UNCHANGED << rdC, rdD, wrC, wrD, nrecv >>

\* lines 152-155: recv raised ConnectionResetError
RelayRecvReset(c) ==
  /\ rpc[c] = "loop"
  /\ close_all_call(c, "reset")
  /\ UNCHANGED << lreads, target, started >>
  /\ UNCHANGED pureVars
  /\ UNCHANGED listenerVars
  /\ UNCHANGED << data, dial, dials, sends, fieldsRead, cout >>
  /\ UNCHANGED << rdC, rdD, wrC, wrD, nrecv >>

\* A variant of Written that writes what one send call may write, the
\* chunk less its last byte (send in place of sendall)
Written_partial(chunk) == SubSeq(chunk, 1, Len(chunk) - 1)

\* dest.sendall(data) / src.sendall(data) returning: the bytes written are
\* the whole chunk
Written(chunk) == chunk

\* lines 162-165: sendall wrote the whole chunk; the for loop goes on to the
\* next ready socket, or back to select
RelaySendOk(c) ==
  /\ rpc[c] = "send"
  /\ IF Opposite(Head(ready[c])) = "dest"
     THEN /\ wrD' = [wrD EXCEPT ![c] = @ \o Written(buf[c])]
          /\ UNCHANGED << wrC, cout >>
     ELSE /\ wrC' = [wrC EXCEPT ![c] = @ \o Written(buf[c])]
          /\ cout' = [cout EXCEPT ![c] = @ \o Written(buf[c])]
          /\ UNCHANGED wrD
  /\ buf' = [buf EXCEPT ![c] = <<>>]
  /\ ready' = [ready EXCEPT ![c] = Tail(@)]
  /\ rpc' = [rpc EXCEPT ![c] = IF Tail(ready[c]) = <<>> THEN "select" ELSE "loop"]
  /\ UNCHANGED << lreads, target, started >>
  /\ UNCHANGED pureVars
  /\ UNCHANGED listenerVars
  /\ UNCHANGED sessionVars
  /\ UNCHANGED << rterm, rdC, rdD, nrecv >>

\* lines 162-165: sendall raised after writing k bytes of the chunk; the
\* exception is not caught and ends the thread
RelaySendFail(c) ==
  /\ rpc[c] = "send"
  /\ \E k \in 0..(Len(buf[c]) - 1) :
       IF Opposite(Head(ready[c])) = "dest"
       THEN /\ wrD' = [wrD EXCEPT ![c] = @ \o SubSeq(buf[c], 1, k)]
            /\ UNCHANGED << wrC, cout >>
       ELSE /\ wrC' = [wrC EXCEPT ![c] = @ \o SubSeq(buf[c], 1, k)]
            /\ cout' = [cout EXCEPT ![c] = @ \o SubSeq(buf[c], 1, k)]
            /\ UNCHANGED wrD
  /\ rpc' = [rpc EXCEPT ![c] = "dead"]
  /\ rterm' = [rterm EXCEPT ![c] = "senderr"]
  /\ ready' = [ready EXCEPT ![c] = <<>>]
  /\ buf' = [buf EXCEPT ![c] = <<>>]
  /\ UNCHANGED << lreads, target, started >>
  /\ UNCHANGED pureVars
  /\ UNCHANGED listenerVars
  /\ UNCHANGED sessionVars
  /\ UNCHANGED << rdC, rdD, nrecv >>

Next ==
  \/ Accept
  \/ RecvRequest
  \/ RecvFail
  \/ DialSuccess
  \/ DialRefused
  \/ DialTimeout
  \/ Interrupt
  \/ \E c \in Conns : RelaySelectErr(c)
  \/ \E c \in Conns : RelaySelectReady(c)
  \/ \E c \in Conns : RelayRecvData(c)
  \/ \E c \in Conns : RelayRecvEOF(c)
  \/ \E c \in Conns : RelayRecvReset(c)
  \/ \E c \in Conns : RelaySendOk(c)
  \/ \E c \in Conns : RelaySendFail(c)

Spec == Init /\ [][Next]_vars

\* ------------------------------------- the handlers on more first buffers
\* The listener and the handlers alone (relay threads are started but not
\* run), with first buffers that differ in the bytes after the header.
HandlerBuffers ==
  Buffers \cup
  { <<4, 1, 31, 144, 127, 0, 0, 1, 65, 66, 0>>,
    <<4, 1, 31, 144, 127, 0, 0, 1, 65>>,
    <<4, 2, 31, 144, 127, 0, 0, 1, 67, 0>>,
    <<3, 1, 31, 144, 127, 0, 0, 1, 65, 0>>,
    <<4, 1, 0, 0, 0, 0, 0, 0, 0>> }

RecvRequestAny == RecvRequestFrom(HandlerBuffers)

HandlerNext ==
  \/ Accept
  \/ RecvRequestAny
  \/ RecvFail
  \/ DialSuccess
  \/ DialRefused
  \/ DialTimeout
  \/ Interrupt

HandlerSpec == Init /\ [][HandlerNext]_vars

\* ------------------------------------ the decoder and encoder on their own
\* One call of ClientRequest(data) or of _build_reply, on an argument drawn
\* by the initial state.
HeaderBytes ==
  { << vn, cd >> \o pb \o ib :
      vn \in {0, 3, 4, 5}, cd \in {0, 1, 2, 3},
      pb \in { <<0, 0>>, <<31, 144>>, <<255, 255>> },
      ib \in { <<0, 0, 0, 0>>, <<127, 0, 0, 1>>, <<10, 1, 2, 3>> } }

TailBytes == { <<0>>, <<65>>, <<65, 0>>, <<65, 66, 0>> }

DecodeBuffers ==
  { h \o t : h \in HeaderBytes, t \in TailBytes }
  \cup { SubSeq(h, 1, k) : h \in HeaderBytes, k \in 0..8 }

EncodePorts == {0, 1, 255, 256, 8080, 65535}
EncodeAddrs == {0, 1, 167838211, 2130706433, 2147483647}

PureCalls ==
  { [op |-> "decode", buf |-> b] : b \in DecodeBuffers }
  \cup { [op |-> "encode", cd |-> cd, port |-> p, ip |-> a] :
           cd \in {CD_REQUEST_GRANTED, CD_REQUEST_REJECTED},
           p \in EncodePorts, a \in EncodeAddrs }
  \cup { [op |-> "encode_default", cd |-> cd] :
           cd \in {CD_REQUEST_GRANTED, CD_REQUEST_REJECTED} }

PureInit ==
  /\ ProxyInit
  /\ arg \in PureCalls
  /\ ret = NoCall

proxyVars == << lpc, lsock, exitCode, conn, nconn, data, csock, ssock, dial,
                dials, sends, fieldsRead, cout, rpc, rterm, ready, buf, rdC,
                rdD, wrC, wrD, nrecv, lreads, target, started >>

\* ClientRequest(data)
Decode ==
  /\ arg.op = "decode" /\ ret.op = "none"
  /\ ret' = [op |-> "decode", val |-> ClientRequest(arg.buf)]
  /\ UNCHANGED arg
  /\ UNCHANGED proxyVars

\* self._build_reply(cd, dst_port, dst_ip)
Encode ==
  /\ arg.op = "encode" /\ ret.op = "none"
  /\ ret' = [op |-> "encode", val |-> build_reply(arg.cd, arg.port, arg.ip)]
  /\ UNCHANGED arg
  /\ UNCHANGED proxyVars

\* self._build_reply(cd)
EncodeDefault ==
  /\ arg.op = "encode_default" /\ ret.op = "none"
  /\ ret' = [op |-> "encode_default", val |-> build_reply_default(arg.cd)]
  /\ UNCHANGED arg
  /\ UNCHANGED proxyVars

PureNext == Decode \/ Encode \/ EncodeDefault

PureSpec == PureInit /\ [][PureNext]_vars

TypeOK ==
  /\ lpc \in {"accept", "recv", "connect", "exited"}
  /\ lsock \in {"open", "closed"}
  /\ exitCode \in {-1, 0, 1}
  /\ conn \in 0..MaxConns /\ nconn \in 0..MaxConns
  /\ \A c \in Conns :
       /\ csock[c] \in {"none", "open", "closed"}
       /\ ssock[c] \in {"none", "created", "connected", "closed"}
       /\ dial[c] \in {"none", "pending", "ok", "timeout", "refused"}
       /\ rpc[c] \in {"none", "select", "loop", "send", "dead", "killed"}
       /\ Len(ready[c]) <= 2


\* ------------------------------------------------------------ properties

IsPrefix(s, t) == Len(s) <= Len(t) /\ SubSeq(t, 1, Len(s)) = s

\* the first buffer of c has been read and dispatched
Dispatched(c) == data[c] # <<>>

\* the wire-format classes of a first buffer
Malformed(d)    == Len(d) < 9 \/ d[1] # 4 \/ d[2] \notin {1, 2}
ValidConnect(d) == Len(d) >= 9 /\ d[1] = 4 /\ d[2] = 1
ValidBind(d)    == Len(d) >= 9 /\ d[1] = 4 /\ d[2] = 2

\* the result code of a reply
ReplyCode(bytes) == bytes[2]

\* a failure scoped to connection c: its dial timed out or was refused, or
\* a reply send to its client raised
ConnFailure(c) ==
  \/ dial[c] \in {"timeout", "refused"}
  \/ \E i \in 1..Len(sends[c]) : sends[c][i].res = "raise"

\* C1: after a dial timeout the handler has made exactly one reply send,
\* with code REJECTED, both sockets are closed and no GRANTED send was
\* attempted.
C1_TimeoutSingleReject ==
  \A c \in Conns :
    dial[c] = "timeout" =>
      /\ Len(sends[c]) = 1
      /\ ReplyCode(sends[c][1].bytes) = CD_REQUEST_REJECTED
      /\ \A i \in 1..Len(sends[c]) :
           ReplyCode(sends[c][i].bytes) # CD_REQUEST_GRANTED
      /\ ssock[c] = "closed"
      /\ csock[c] = "closed"

\* C2: a failure scoped to one connection never ends the listener loop:
\* unless the operator interrupted the program, the listening socket is
\* still open and the listener has not exited.
C2_ListenerSurvives ==
  (exitCode # 0 /\ \E c \in Conns : ConnFailure(c)) =>
    (lsock = "open" /\ lpc # "exited")

\* C3: after a dial that failed for any reason (timeout, refused,
\* unreachable) the client was sent a REJECTED reply, both sockets are
\* closed and the dial was made once.
C3_DialFailureRejected ==
  \A c \in Conns :
    dial[c] \in {"timeout", "refused"} =>
      /\ \E i \in 1..Len(sends[c]) :
           sends[c][i] = SendCall(RejectedReply, "ok")
      /\ ssock[c] = "closed"
      /\ csock[c] = "closed"
      /\ dials[c] = 1

\* C4: after a successful dial for a CONNECT to port P and address A the
\* reply sent to the client is the 8 bytes (0, 90, P, A).
C4_GrantedEchoes ==
  \A c \in Conns :
    (ValidConnect(data[c]) /\ dial[c] = "ok") =>
      /\ Len(sends[c]) = 1
      /\ sends[c][1].bytes =
           build_reply(CD_REQUEST_GRANTED, UnpackH(SubSeq(data[c], 3, 4)),
                       UnpackL(SubSeq(data[c], 5, 8)))

\* C5: a malformed first buffer gets exactly one REJECTED reply with zero
\* port and address, the client connection is closed, no outbound socket is
\* created or dialled, no relay is started, and no request attribute is read
\* that the decoder did not set.
C5_MalformedRejected ==
  \A c \in Conns :
    (Dispatched(c) /\ Malformed(data[c])) =>
      /\ Len(sends[c]) = 1
      /\ sends[c][1].bytes = build_reply(CD_REQUEST_REJECTED, 0, 0)
      /\ csock[c] = "closed"
      /\ ssock[c] = "none" /\ dial[c] = "none" /\ dials[c] = 0
      /\ rpc[c] = "none"
      /\ fieldsRead[c] \subseteq ClientRequest(data[c]).set

\* C6: a valid BIND request gets exactly one REJECTED reply with zero port
\* and address, the client connection is closed, and no outbound socket is
\* created and no relay started.
C6_BindRejected ==
  \A c \in Conns :
    (Dispatched(c) /\ ValidBind(data[c])) =>
      /\ Len(sends[c]) = 1
      /\ sends[c][1].bytes = build_reply(CD_REQUEST_REJECTED, 0, 0)
      /\ csock[c] = "closed"
      /\ ssock[c] = "none" /\ dial[c] = "none" /\ dials[c] = 0
      /\ rpc[c] = "none"

\* C7: a relay task that ended on a select error, a zero-length read or a
\* connection reset has closed both its client and its destination socket.
C7_TerminatedRelayClosed ==
  \A c \in Conns :
    (rpc[c] = "dead" /\ rterm[c] \in {"err", "eof", "reset"}) =>
      (csock[c] = "closed" /\ ssock[c] = "closed")

\* C8: while an accepted connection has not delivered its first bytes, or
\* while its dial is pending, the running listener can accept a further
\* connection.
C8_AcceptNotBlocked ==
  ( /\ exitCode = -1
    /\ nconn < MaxConns
    /\ \E c \in Conns : \/ (csock[c] = "open" /\ ~Dispatched(c))
                        \/ dial[c] = "pending" )
  => ENABLED Accept

\* C9: within one relay the bytes written to the destination are a prefix
\* of the bytes read from the client, and the bytes written to the client a
\* prefix of the bytes read from the destination; chunks go whole and in
\* order: while the thread waits or is between two reads everything read
\* has been written, and while it holds a chunk what was read is what was
\* written followed by that chunk.
C9_RelayPrefix ==
  \A c \in Conns :
    /\ IsPrefix(wrD[c], rdC[c])
    /\ IsPrefix(wrC[c], rdD[c])
    /\ rpc[c] \in {"select", "loop"} => (wrD[c] = rdC[c] /\ wrC[c] = rdD[c])
    /\ rpc[c] = "send" =>
         IF Head(ready[c]) = "src"
         THEN rdC[c] = wrD[c] \o buf[c] /\ wrC[c] = rdD[c]
         ELSE rdD[c] = wrC[c] \o buf[c] /\ wrD[c] = rdC[c]

\* C9 witness: a relay has forwarded bytes in both directions
C9_Witness ==
  \E c \in Conns : wrD[c] # <<>> /\ wrC[c] # <<>> /\ Len(rdC[c]) + Len(rdD[c]) >= 2

\* C10: what a client has received is nothing, or a REJECTED reply alone on
\* a connection that is then closed, or a GRANTED reply followed by exactly
\* the bytes the relay wrote, themselves read from the destination; a relay
\* thread exists only on a connection that received a GRANTED reply.
C10_ClientObserves ==
  \A c \in Conns :
    /\ \/ cout[c] = <<>>
       \/ /\ Len(cout[c]) = 8
          /\ ReplyCode(cout[c]) = CD_REQUEST_REJECTED
          /\ csock[c] = "closed"
       \/ /\ Len(cout[c]) >= 8
          /\ ReplyCode(cout[c]) = CD_REQUEST_GRANTED
          /\ SubSeq(cout[c], 9, Len(cout[c])) = wrC[c]
          /\ IsPrefix(wrC[c], rdD[c])
    /\ (wrC[c] # <<>> \/ rpc[c] # "none") =>
         (Len(cout[c]) >= 8 /\ ReplyCode(cout[c]) = CD_REQUEST_GRANTED)

\* C10 witness: one client got a GRANTED reply and relayed bytes, another
\* got the REJECTED reply of a timed-out dial
C10_Witness ==
  \E c, d \in Conns :
    /\ dial[c] = "timeout" /\ cout[c] = RejectedReply
    /\ Len(cout[d]) > 8 /\ ReplyCode(cout[d]) = CD_REQUEST_GRANTED


\* C11: a relay thread exists for a connection only after its dial
\* succeeded and its GRANTED reply was sent: the destination socket is
\* connected, the one reply send of the session is the GRANTED one (so no
\* REJECTED was sent), and forward.start() ran at most once.
C11_RelayAfterGrant ==
  \A c \in Conns :
    /\ started[c] <= 1
    /\ (rpc[c] # "none") <=> (started[c] = 1)
    /\ started[c] = 1 =>
         /\ dial[c] = "ok"
         /\ ssock[c] = "connected"
         /\ Len(sends[c]) = 1
         /\ sends[c][1].res = "ok"
         /\ ReplyCode(sends[c][1].bytes) = CD_REQUEST_GRANTED
         /\ \A i \in 1..Len(sends[c]) :
              ReplyCode(sends[c][i].bytes) # CD_REQUEST_REJECTED

\* C11 witness: one session has a relay thread, another timed out, was
\* sent REJECTED and has none
C11_Witness ==
  \E c, d \in Conns :
    /\ started[c] = 1 /\ rpc[c] # "none"
    /\ dial[d] = "timeout" /\ started[d] = 0 /\ Len(sends[d]) = 2

\* C13: once the relay thread of a connection is started, the handler and
\* the listener make no further read, reply send or close on its two
\* sockets: the listener's one read and the handler's one send stay the only
\* ones, and (the relay itself never closing a socket) both sockets stay as
\* they were handed over.
C13_HandoffExclusive ==
  \A c \in Conns :
    started[c] >= 1 =>
      /\ csock[c] = "open"
      /\ ssock[c] = "connected"
      /\ Len(sends[c]) = 1
      /\ lreads[c] = 1

\* C13 witness: after the handoff of one connection the relay has forwarded
\* bytes to its client and the listener has dispatched a later connection
C13_Witness ==
  \E c, d \in Conns :
    /\ c < d /\ started[c] = 1 /\ wrC[c] # <<>>
    /\ Dispatched(d) /\ sends[d] # <<>>

\* C14: when the relay ends on a zero-length read or a reset, every chunk it
\* read from either socket has been written in full to the other one.
C14_ForwardBeforeEOF ==
  \A c \in Conns :
    (rpc[c] = "dead" /\ rterm[c] \in {"eof", "reset"}) =>
      (wrD[c] = rdC[c] /\ wrC[c] = rdD[c])

\* C14 witness: a relay that read chunks from both sockets has ended on a
\* zero-length read
C14_Witness ==
  \E c \in Conns :
    rpc[c] = "dead" /\ rterm[c] = "eof" /\ rdC[c] # <<>> /\ rdD[c] # <<>>

\* C15: no event of another client session (malformed request, dial timeout
\* or refusal, reply send failure) stops a running relay: a relay is never
\* killed by the exit that such an event of the session the listener was
\* handling caused.
C15_RelayIsolated ==
  \A c \in Conns :
    ~ ( /\ rpc[c] = "killed"
        /\ exitCode = 1
        /\ conn # c
        /\ ConnFailure(conn) )

\* C16: the listener reads once from each accepted connection and the
\* handling is decided by that buffer: no reply is sent and no dial made
\* before or without that single read, a first read shorter than 9 bytes is
\* answered with REJECTED and never dialled, and two connections that
\* delivered the same first buffer took the same path.
C16_SingleRead ==
  \A c \in Conns :
    /\ lreads[c] <= 1
    /\ (sends[c] # <<>> \/ dials[c] > 0) => lreads[c] = 1
    /\ (Dispatched(c) /\ Len(data[c]) < 9) =>
         /\ dials[c] = 0
         /\ Len(sends[c]) = 1
         /\ sends[c][1].bytes = RejectedReply
    /\ \A d \in Conns :
         (Dispatched(c) /\ Dispatched(d) /\ data[c] = data[d]) =>
           (fieldsRead[c] = fieldsRead[d] /\ target[c] = target[d])

\* C16 witness: a connection whose first read brought the 8 header bytes of
\* a CONNECT request (the NUL still to come) has been sent REJECTED
C16_Witness ==
  \E c \in Conns :
    /\ data[c] = <<4, 1, 31, 144, 127, 0, 0, 1>>
    /\ lreads[c] = 1
    /\ cout[c] = RejectedReply

\* C12: the decoder flags a buffer invalid exactly when it is shorter than
\* 9 bytes, or its byte 0 is not 4, or its byte 1 is not 1 or 2; port and
\* address play no part.
C12_ValidityIsWireFormat ==
  ret.op = "decode" => (ret.val.invalid <=> Malformed(arg.buf))

\* C12 witness: a request for port 0 at 0.0.0.0 was decoded as valid
C12_Witness ==
  /\ ret.op = "decode"
  /\ ~ ret.val.invalid
  /\ SubSeq(arg.buf, 3, 8) = <<0, 0, 0, 0, 0, 0>>

\* C17: _build_reply yields 8 bytes, the first 0 and the second the result
\* code; unpacking bytes 2-3 and 4-7 big-endian gives back the port and the
\* address; with the defaults the port and address bytes are all zero.
C17_ReplyRoundTrip ==
  /\ ret.op \in {"encode", "encode_default"} =>
       /\ Len(ret.val) = 8
       /\ \A i \in 1..8 : ret.val[i] \in 0..255
       /\ ret.val[1] = 0
       /\ ret.val[2] = arg.cd
  /\ ret.op = "encode" =>
       /\ UnpackH(SubSeq(ret.val, 3, 4)) = arg.port
       /\ UnpackL(SubSeq(ret.val, 5, 8)) = arg.ip
  /\ ret.op = "encode_default" =>
       SubSeq(ret.val, 3, 8) = <<0, 0, 0, 0, 0, 0>>

\* C17 witness: the GRANTED reply for port 8080 at 127.0.0.1 was encoded
C17_Witness ==
  /\ ret.op = "encode"
  /\ arg.cd = CD_REQUEST_GRANTED /\ arg.port = 8080 /\ arg.ip = 2130706433
  /\ ret.val = <<0, 90, 31, 144, 127, 0, 0, 1>>

\* the results and the bytes of the reply sends of a session, in order
SendResults(c) == [i \in 1..Len(sends[c]) |-> sends[c][i].res]
SendBytes(c)   == [i \in 1..Len(sends[c]) |-> sends[c][i].bytes]

\* C18: two sessions whose first buffers are at least 9 bytes long and
\* agree on the first 8 bytes have the same validity flag, took the same
\* branch of the handler, have the same dial target and, when their dials
\* and sends fared alike, made the same sequence of reply sends.
C18_UseridIgnored ==
  \A c, d \in Conns :
    ( /\ Dispatched(c) /\ Dispatched(d)
      /\ Len(data[c]) >= 9 /\ Len(data[d]) >= 9
      /\ SubSeq(data[c], 1, 8) = SubSeq(data[d], 1, 8) )
    => /\ ClientRequest(data[c]).invalid = ClientRequest(data[d]).invalid
       /\ fieldsRead[c] = fieldsRead[d]
       /\ target[c] = target[d]
       /\ (dial[c] = dial[d] /\ SendResults(c) = SendResults(d)) =>
            SendBytes(c) = SendBytes(d)

\* C18 witness: two CONNECT sessions to the same destination with
\* different user ids were both dialled and granted
C18_Witness ==
  \E c, d \in Conns :
    /\ data[c] # data[d]
    /\ Len(data[c]) >= 9 /\ Len(data[d]) >= 9
    /\ SubSeq(data[c], 1, 8) = SubSeq(data[d], 1, 8)
    /\ dial[c] = "ok" /\ dial[d] = "ok"
    /\ started[c] = 1 /\ started[d] = 1

====
